---------------------------- MODULE Spec2Model ----------------------------
(***************************************************************************)
(* NEET OMR evaluation: the pure evaluator evaluateNeetOMR                 *)
(* (server/utils/neetOmrEvaluator.js) and the exam controller that stores  *)
(* its result on a submission (uploadExam, getExam, submitOmr,             *)
(* evaluateOmr, getExamResult).                                            *)
(*                                                                         *)
(* JavaScript values are records [type, num, str]:                         *)
(*   type = "number"    a finite number, num its value in 1/Unit steps     *)
(*   type = "NaN", "Infinity"   the non-finite numbers                     *)
(*   type = "string"    a string, str its text                             *)
(*   type = "null", "undefined"                                            *)
(* A finite number n is held as the integer n * Unit, so that 50.5 is a    *)
(* value of the model (50 * Unit + 1 when Unit = 2).                       *)
(***************************************************************************)
EXTENDS Integers, Sequences, FiniteSets, TLC

VARIABLES
    answerKey,        \* evaluateNeetOMR's argument answerKey
    studentAnswers,   \* evaluateNeetOMR's argument studentAnswers
    result,           \* what evaluateNeetOMR returned (<<>> before the call)
    exam,             \* the Exam collection: <<>> or <<the exam document>>
    media,            \* number of files held by the media service
    submissions,      \* the ExamSubmission collection, by _id
    requests,         \* evaluateOmr requests waiting for their save
    res,              \* the last response sent by a handler
    savedBy           \* history: the request body of the last save, by _id

vars == <<answerKey, studentAnswers, result, exam, media,
          submissions, requests, res, savedBy>>

---------------------------------------------------------------------------
(* Bounds *)

\* Steps per whole number: question numbers are multiples of 1/Unit.
Unit == 2
\* Longest answerKey list of SpecEval.
MaxKeyLen == 3
\* Longest studentAnswers list of SpecEval.
MaxStuLen == 2
\* Longest answerKey list of SpecBand.
MaxBandLen == 2
\* Most submissions the store holds.
MaxSubs == 2
\* Most evaluateOmr requests waiting for their save at once.
MaxInFlight == 2

---------------------------------------------------------------------------
(* JavaScript values *)

Num(n) == [type |-> "number", num |-> n, str |-> ""]
Str(s) == [type |-> "string", num |-> 0, str |-> s]
Null == [type |-> "null", num |-> 0, str |-> ""]
Undefined == [type |-> "undefined", num |-> 0, str |-> ""]
NaN == [type |-> "NaN", num |-> 0, str |-> ""]
Infinity == [type |-> "Infinity", num |-> 0, str |-> ""]

\* The numeric literals the model's strings spell, as StringToNumber reads
\* them; any other string is not a number.
StringNumericValue ==
    ("" :> Num(0)) @@ ("1" :> Num(1 * Unit)) @@ ("2" :> Num(2 * Unit))
    @@ ("Infinity" :> Infinity)

\* Number(v)
Number(v) ==
    CASE v.type = "string" ->
            IF v.str \in DOMAIN StringNumericValue
            THEN StringNumericValue[v.str] ELSE NaN
      [] v.type = "null" -> Num(0)
      [] v.type = "undefined" -> NaN
      [] OTHER -> v

\* Number.isFinite(v)
IsFinite(v) == v.type = "number"

\* v != null
NotNullish(v) == v.type \notin {"null", "undefined"}

\* !v
Falsy(v) ==
    \/ v.type \in {"null", "undefined", "NaN"}
    \/ v.type = "string" /\ v.str = ""
    \/ v.type = "number" /\ v.num = 0

UpperOf == ("a" :> "A") @@ ("b" :> "B") @@ ("c" :> "C") @@ ("d" :> "D")

\* Variant with a fault: the text is left as it is.
ToUpperCaseExact(s) == s

\* s.toUpperCase(), on the single-letter strings of an option
ToUpperCase(s) == IF s \in DOMAIN UpperOf THEN UpperOf[s] ELSE s

\* String(v).toUpperCase() of a string, behind the v != null test
UpperOption(v) == IF NotNullish(v) THEN Str(ToUpperCase(v.str)) ELSE Null

---------------------------------------------------------------------------
(* Map: the entries in insertion order *)

MapHas(m, k) == \E i \in 1..Len(m) : m[i].key = k

MapGet(m, k) == m[CHOOSE i \in 1..Len(m) : m[i].key = k].value

\* Variant with a fault: a present key keeps its first value.
MapSetKeepFirst(m, k, v) ==
    IF MapHas(m, k) THEN m ELSE Append(m, [key |-> k, value |-> v])

\* Variant with a fault: a present key is deleted and set again, which
\* moves it behind the others.
MapSetMoveLast(m, k, v) ==
    Append(SelectSeq(m, LAMBDA e : e.key # k), [key |-> k, value |-> v])

\* Map.prototype.set: a present key keeps its place and takes the value
MapSet(m, k, v) ==
    IF MapHas(m, k)
    THEN [i \in 1..Len(m) |->
            IF m[i].key = k THEN [key |-> k, value |-> v] ELSE m[i]]
    ELSE Append(m, [key |-> k, value |-> v])

---------------------------------------------------------------------------
(* evaluateNeetOMR *)

\* Variant with a fault: 50 falls in the second band.
getSubjectOffByOne(questionNumber) ==
    IF questionNumber.num >= 1 * Unit /\ questionNumber.num < 50 * Unit
    THEN "Physics"
    ELSE IF questionNumber.num >= 50 * Unit /\ questionNumber.num <= 100 * Unit
    THEN "Chemistry"
    ELSE "Biology"

\* Variant with a fault: a third band up to 200, and no band beyond.
getSubjectNoFallback(questionNumber) ==
    IF questionNumber.num >= 1 * Unit /\ questionNumber.num <= 50 * Unit
    THEN "Physics"
    ELSE IF questionNumber.num >= 51 * Unit /\ questionNumber.num <= 100 * Unit
    THEN "Chemistry"
    ELSE IF questionNumber.num >= 101 * Unit /\ questionNumber.num <= 200 * Unit
    THEN "Biology"
    ELSE "Unknown"

\* getSubject: the bands [1,50], [51,100] and the rest.
getSubject(questionNumber) ==
    IF questionNumber.num >= 1 * Unit /\ questionNumber.num <= 50 * Unit
    THEN "Physics"
    ELSE IF questionNumber.num >= 51 * Unit /\ questionNumber.num <= 100 * Unit
    THEN "Chemistry"
    ELSE "Biology"

\* Variant with a fault: rows with a null or empty correctOption are set.
RECURSIVE AnswerKeyMapKeepEmpty(_, _)
AnswerKeyMapKeepEmpty(key, n) ==
    IF n = 0 THEN <<>>
    ELSE LET m == AnswerKeyMapKeepEmpty(key, n - 1)
             item == key[n]
             questionNumber == Number(item.questionNumber)
             correctOption == UpperOption(item.correctOption)
         IN  IF ~IsFinite(questionNumber) THEN m
             ELSE MapSet(m, questionNumber, correctOption)

\* The loop over answerKey, after its first n rows.
RECURSIVE AnswerKeyMap(_, _)
AnswerKeyMap(key, n) ==
    IF n = 0 THEN <<>>
    ELSE LET m == AnswerKeyMap(key, n - 1)
             item == key[n]
             questionNumber == Number(item.questionNumber)
             correctOption == UpperOption(item.correctOption)
         IN  IF ~IsFinite(questionNumber) THEN m
             ELSE IF Falsy(correctOption) THEN m
             ELSE MapSet(m, questionNumber, correctOption)

\* Variant with a fault: rows without a selection are skipped, as the
\* answer key's rows without an option are.
RECURSIVE StudentMapDropNull(_, _)
StudentMapDropNull(stu, n) ==
    IF n = 0 THEN <<>>
    ELSE LET m == StudentMapDropNull(stu, n - 1)
             item == stu[n]
             questionNumber == Number(item.questionNumber)
             selectedOption == UpperOption(item.selectedOption)
         IN  IF ~IsFinite(questionNumber) THEN m
             ELSE IF Falsy(selectedOption) THEN m
             ELSE MapSet(m, questionNumber,
                         [questionNumber |-> questionNumber,
                          selectedOption |-> selectedOption])

\* The loop over studentAnswers, after its first n rows.
RECURSIVE StudentMap(_, _)
StudentMap(stu, n) ==
    IF n = 0 THEN <<>>
    ELSE LET m == StudentMap(stu, n - 1)
             item == stu[n]
             questionNumber == Number(item.questionNumber)
             selectedOption == UpperOption(item.selectedOption)
         IN  IF ~IsFinite(questionNumber) THEN m
             ELSE MapSet(m, questionNumber,
                         [questionNumber |-> questionNumber,
                          selectedOption |-> selectedOption])

ZeroResult ==
    [physicsMarks |-> 0, chemistryMarks |-> 0, biologyMarks |-> 0,
     totalMarks |-> 0, correctCount |-> 0, incorrectCount |-> 0,
     unattemptedCount |-> 0, wrongQuestions |-> <<>>]

\* subject === s ? marks + d : marks
AddIf(marks, subject, s, d) == IF subject = s THEN marks + d ELSE marks

\* One pass of the scoring loop's body on the running totals r.
ScoreEntry(r, questionNumber, correctOption, studentMap) ==
    LET subject == getSubject(questionNumber)
        attempted == /\ MapHas(studentMap, questionNumber)
                     /\ ~Falsy(MapGet(studentMap, questionNumber).selectedOption)
    IN  IF ~attempted
        THEN [r EXCEPT !.unattemptedCount = @ + 1]
        ELSE LET selectedOption ==
                     MapGet(studentMap, questionNumber).selectedOption
             IN  IF selectedOption = correctOption
                 THEN [r EXCEPT
                         !.correctCount = @ + 1,
                         !.totalMarks = @ + 4,
                         !.physicsMarks = AddIf(@, subject, "Physics", 4),
                         !.chemistryMarks = AddIf(@, subject, "Chemistry", 4),
                         !.biologyMarks = AddIf(@, subject, "Biology", 4)]
                 ELSE [r EXCEPT
                         !.incorrectCount = @ + 1,
                         !.totalMarks = @ - 1,
                         !.physicsMarks = AddIf(@, subject, "Physics", -1),
                         !.chemistryMarks = AddIf(@, subject, "Chemistry", -1),
                         !.biologyMarks = AddIf(@, subject, "Biology", -1),
                         !.wrongQuestions = Append(@,
                             [questionNumber |-> questionNumber,
                              subject |-> subject,
                              selectedOption |-> selectedOption,
                              correctOption |-> correctOption])]

\* The loop over answerKeyMap.entries(), after its first n entries.
RECURSIVE Score(_, _, _)
Score(keyMap, studentMap, n) ==
    IF n = 0 THEN ZeroResult
    ELSE ScoreEntry(Score(keyMap, studentMap, n - 1),
                    keyMap[n].key, keyMap[n].value, studentMap)

evaluateNeetOMR(key, stu) ==
    LET answerKeyMap == AnswerKeyMap(key, Len(key))
        studentMap == StudentMap(stu, Len(stu))
    IN  Score(answerKeyMap, studentMap, Len(answerKeyMap))

---------------------------------------------------------------------------
(* The evaluator on its own: the inputs are drawn, then it is called. *)

KeyRow(q, o) == [questionNumber |-> q, correctOption |-> o]
StudentRow(q, o) == [questionNumber |-> q, selectedOption |-> o]

\* Answer-key rows of SpecEval: question 1 with options "a", "B" and null,
\* question 2 spelt as the string "2", an empty option, a question number
\* that is no number.
KeyRows ==
    { KeyRow(Num(1 * Unit), Str("a")), KeyRow(Num(1 * Unit), Str("B")),
      KeyRow(Num(1 * Unit), Null), KeyRow(Str("2"), Str("B")),
      KeyRow(Num(2 * Unit), Str("")), KeyRow(Str("x"), Str("a")) }

\* Student rows of SpecEval.
StudentRows ==
    { StudentRow(Num(1 * Unit), Str("A")), StudentRow(Str("1"), Str("b")),
      StudentRow(Num(1 * Unit), Null), StudentRow(Num(1 * Unit), Str("")),
      StudentRow(Num(2 * Unit), Str("A")), StudentRow(Num(2 * Unit), Undefined) }

\* Question numbers of SpecBand: around every edge of the bands.
BandNumbers ==
    { Num(0 - Unit), Num(0), Num(1), Num(1 * Unit), Num(50 * Unit),
      Num(50 * Unit + 1), Num(51 * Unit), Num(100 * Unit),
      Num(100 * Unit + 1), Num(101 * Unit) }

\* What a student of SpecBand marks on a question whose key is "A".
BandMarks == { Str("A"), Str("B"), Null }

SeqsUpTo(S, n) == UNION { [1..k -> S] : k \in 0..n }

ControllerInit ==
    /\ exam = <<>>
    /\ media = 0
    /\ submissions = <<>>
    /\ requests = {}
    /\ res = <<>>
    /\ savedBy = <<>>

controllerVars == <<exam, media, submissions, requests, res, savedBy>>
evaluatorVars == <<answerKey, studentAnswers, result>>

InitEval ==
    /\ answerKey \in SeqsUpTo(KeyRows, MaxKeyLen)
    /\ studentAnswers \in SeqsUpTo(StudentRows, MaxStuLen)
    /\ result = <<>>
    /\ ControllerInit

InitBand ==
    /\ \E numbers \in SeqsUpTo(BandNumbers, MaxBandLen) :
         \E marks \in [1..Len(numbers) -> BandMarks] :
            /\ answerKey = [i \in 1..Len(numbers) |->
                               KeyRow(numbers[i], Str("A"))]
            /\ studentAnswers = [i \in 1..Len(numbers) |->
                                    StudentRow(numbers[i], marks[i])]
    /\ result = <<>>
    /\ ControllerInit

\* The call evaluateNeetOMR({ answerKey, studentAnswers }).
Evaluate ==
    /\ result = <<>>
    /\ result' = <<evaluateNeetOMR(answerKey, studentAnswers)>>
    /\ UNCHANGED <<answerKey, studentAnswers, controllerVars>>

NextEval == Evaluate

SpecEval == InitEval /\ [][NextEval]_vars

SpecBand == InitBand /\ [][NextEval]_vars

---------------------------------------------------------------------------
(* The controller: uploadExam, getExam, submitOmr, evaluateOmr and         *)
(* getExamResult.  A handler runs as one step up to the await whose result *)
(* it acts on; evaluateOmr, which reads the submission and later saves it, *)
(* is two steps, and the requests between the two are the set requests     *)
(* (two requests with the same id and body are one element: they save the  *)
(* same values).  A submission's _id is its index in submissions; the id 0 *)
(* is the absent (falsy) submissionId.                                     *)

Arr(items) == [type |-> "array", items |-> items]
Obj(fields) == [type |-> "object", fields |-> fields]

\* Array.isArray(v)
IsArray(v) == v.type = "array"

\* The files the media service can hold: an exam's three and one per
\* submission.
MaxMedia == 3 + MaxSubs

ExamFiles == <<"questions", "answerKey", "omr">>

UploadErrors ==
    [questions |-> "Error on uploading question file",
     answerKey |-> "Error on uploading answerkey file",
     omr |-> "Error on uploading omr file"]

NoRequest == [submissionId |-> 0, body |-> <<>>]

Response(handler, request, status, message, detectedMarks, evaluation) ==
    <<[handler |-> handler, request |-> request, status |-> status,
       message |-> message, detectedMarks |-> detectedMarks,
       evaluation |-> evaluation]>>

\* uploadExam: the given files are uploaded in the order questions,
\* answerKey, omr, and the upload number failAt fails (0: none does).
uploadExam(name, files, failAt) ==
    LET given == SelectSeq(ExamFiles, LAMBDA f : f \in files)
        reply(status, message) ==
            Response("uploadExam", NoRequest, status, message,
                     Undefined, Undefined)
    IN  /\ failAt \in 0..Len(given)
        /\ media + Len(given) <= MaxMedia
        /\ IF failAt > 0
           THEN /\ media' = media + (failAt - 1)
                /\ res' = reply(400, UploadErrors[given[failAt]])
                /\ UNCHANGED exam
           ELSE IF exam # <<>>
           THEN \* the files replaced are deleted after the save
                /\ exam' = <<[name |-> name \/ exam[1].name]>>
                /\ media' = media
                /\ res' = reply(200, "Exam updated successfully")
           ELSE IF ~name \/ Len(given) < Len(ExamFiles)
           THEN /\ media' = media + Len(given)
                /\ res' = reply(400, "upload all files")
                /\ UNCHANGED exam
           ELSE /\ exam' = <<[name |-> name]>>
                /\ media' = media + Len(given)
                /\ res' = reply(200, "exam uploaded successfully")
        /\ UNCHANGED <<submissions, requests, savedBy, evaluatorVars>>

getExam ==
    /\ res' = IF exam = <<>>
              THEN Response("getExam", NoRequest, 404,
                            "no exam has been uploaded yet",
                            Undefined, Undefined)
              ELSE Response("getExam", NoRequest, 200, "Exam details",
                            Undefined, Undefined)
    /\ UNCHANGED <<exam, media, submissions, requests, savedBy,
                   evaluatorVars>>

\* Variant: the test is on the document found, !exam.
ExamNotFoundTestsDocument(found) == found = <<>>

\* !Exam, the test behind "exam not found": Exam is the imported model,
\* not the document found, and is never falsy.
ExamNotFound(found) == FALSE

\* submitOmr, with or without req.file, the upload succeeding or not.
submitOmr(hasFile, uploaded) ==
    LET reply(status, message) ==
            Response("submitOmr", NoRequest, status, message,
                     Undefined, Undefined)
    IN  /\ IF ExamNotFound(exam)
           THEN /\ res' = reply(404, "exam not found")
                /\ UNCHANGED <<media, submissions, savedBy>>
           ELSE IF exam = <<>>
           THEN \* exam._id throws on null, and the catch answers
                /\ res' = reply(400, "error on hitting submitOmr controller")
                /\ UNCHANGED <<media, submissions, savedBy>>
           ELSE IF ~hasFile
           THEN /\ res' = reply(400, "please upload filled OMR")
                /\ UNCHANGED <<media, submissions, savedBy>>
           ELSE IF ~uploaded
           THEN /\ res' = reply(400,
                             "failed to upload filled Omr on the cloud")
                /\ UNCHANGED <<media, submissions, savedBy>>
           ELSE /\ Len(submissions) < MaxSubs
                /\ media < MaxMedia
                /\ media' = media + 1
                /\ submissions' = Append(submissions,
                      [detectedMarks |-> Undefined, evaluation |-> Undefined])
                /\ savedBy' = Append(savedBy, <<>>)
                /\ res' = reply(200, "Your Filled Omr Submitted Successfully")
        /\ UNCHANGED <<exam, requests, evaluatorVars>>

\* Variant with a fault: studentAnswers is not tested.
BodyIsValidKeyOnly(body) == IsArray(body.answerKey)

\* Array.isArray(answerKey) && Array.isArray(studentAnswers)
BodyIsValid(body) == IsArray(body.answerKey) /\ IsArray(body.studentAnswers)

\* Variant with a fault: marks already on the document are kept.
EvaluatedKeepsMarks(submission, body) ==
    [submission EXCEPT
       !.detectedMarks = IF @ = Undefined THEN body.studentAnswers ELSE @,
       !.evaluation = Obj(evaluateNeetOMR(body.answerKey.items,
                                          body.studentAnswers.items))]

\* The document found, with the marks and the evaluation assigned to it;
\* save() writes these two paths.
Evaluated(submission, body) ==
    [submission EXCEPT
       !.detectedMarks = body.studentAnswers,
       !.evaluation = Obj(evaluateNeetOMR(body.answerKey.items,
                                          body.studentAnswers.items))]

\* evaluateOmr up to the document's save(): the request is answered at
\* once, or waits for its save with the document it changed.
evaluateOmrBegin(submissionId, body) ==
    LET request == [submissionId |-> submissionId, body |-> body]
        reply(status, message) ==
            Response("evaluateOmr", request, status, message,
                     Undefined, Undefined)
    IN  /\ IF submissionId = 0
           THEN /\ res' = reply(400, "submissionId is required")
                /\ UNCHANGED requests
           ELSE IF ~BodyIsValid(body)
           THEN /\ res' = reply(400,
                             "answerKey and studentAnswers must be arrays")
                /\ UNCHANGED requests
           ELSE IF submissionId \notin DOMAIN submissions
           THEN /\ res' = reply(404, "submission not found")
                /\ UNCHANGED requests
           ELSE /\ Cardinality(requests) < MaxInFlight
                /\ requests' = requests \cup
                     { [submissionId |-> submissionId, body |-> body,
                        submission |->
                           Evaluated(submissions[submissionId], body)] }
                /\ UNCHANGED res
        /\ UNCHANGED <<exam, media, submissions, savedBy, evaluatorVars>>

\* submission.save() resolves and the request is answered.
evaluateOmrSave(r) ==
    /\ r \in requests
    /\ submissions' = [submissions EXCEPT ![r.submissionId] = r.submission]
    /\ savedBy' = [savedBy EXCEPT ![r.submissionId] = <<r.body>>]
    /\ requests' = requests \ {r}
    /\ res' = Response("evaluateOmr",
                       [submissionId |-> r.submissionId, body |-> r.body],
                       200, "OMR evaluated successfully",
                       r.submission.detectedMarks, r.submission.evaluation)
    /\ UNCHANGED <<exam, media, evaluatorVars>>

\* submission.save() rejects and the catch answers.
evaluateOmrSaveFails(r) ==
    /\ r \in requests
    /\ requests' = requests \ {r}
    /\ res' = Response("evaluateOmr",
                       [submissionId |-> r.submissionId, body |-> r.body],
                       500, "error on evaluating OMR", Undefined, Undefined)
    /\ UNCHANGED <<exam, media, submissions, savedBy, evaluatorVars>>

\* Variant with a fault: the evaluation is not tested.
ResultOfAnyDocument(request, submission) ==
    Response("getExamResult", request, 200,
             "Exam evaluation fetched successfully",
             submission.detectedMarks, submission.evaluation)

\* getExamResult's answer for the document found.
ResultOf(request, submission) ==
    IF Falsy(submission.evaluation)
    THEN Response("getExamResult", request, 400,
                  "evaluation not available for this submission yet",
                  Undefined, Undefined)
    ELSE Response("getExamResult", request, 200,
                  "Exam evaluation fetched successfully",
                  IF Falsy(submission.detectedMarks)
                  THEN Arr(<<>>) ELSE submission.detectedMarks,
                  submission.evaluation)

getExamResult(submissionId) ==
    LET request == [submissionId |-> submissionId, body |-> <<>>]
    IN  /\ res' =
              IF submissionId = 0
              THEN Response("getExamResult", request, 400,
                            "submissionId is required", Undefined, Undefined)
              ELSE IF submissionId \notin DOMAIN submissions
              THEN Response("getExamResult", request, 404,
                            "submission not found", Undefined, Undefined)
              ELSE ResultOf(request, submissions[submissionId])
        /\ UNCHANGED <<exam, media, submissions, requests, savedBy,
                       evaluatorVars>>

\* The request bodies: two valid ones, whose evaluations differ, and two
\* in which one of the two is no array.
KeyA == Arr(<<[questionNumber |-> Num(1 * Unit), correctOption |-> Str("A")]>>)
KeyB == Arr(<<[questionNumber |-> Num(1 * Unit), correctOption |-> Str("B")],
              [questionNumber |-> Num(51 * Unit), correctOption |-> Str("C")]>>)
MarksA == Arr(<<[questionNumber |-> Num(1 * Unit), selectedOption |-> Str("A")]>>)
MarksEmpty == Arr(<<>>)

Bodies ==
    { [answerKey |-> KeyA, studentAnswers |-> MarksA],
      [answerKey |-> KeyB, studentAnswers |-> MarksEmpty],
      [answerKey |-> Undefined, studentAnswers |-> MarksA],
      [answerKey |-> KeyA, studentAnswers |-> Str("A")] }

\* The ids a request names: none, every id the store can hold, and one
\* more.
SubmissionIds == 0..(MaxSubs + 1)

Init ==
    /\ answerKey = <<>>
    /\ studentAnswers = <<>>
    /\ result = <<>>
    /\ ControllerInit

Next ==
    \/ \E name \in BOOLEAN, files \in SUBSET {"questions", "answerKey", "omr"},
          failAt \in 0..3 : uploadExam(name, files, failAt)
    \/ getExam
    \/ \E hasFile \in BOOLEAN, uploaded \in BOOLEAN : submitOmr(hasFile, uploaded)
    \/ \E submissionId \in SubmissionIds, body \in Bodies :
          evaluateOmrBegin(submissionId, body)
    \/ \E r \in requests : evaluateOmrSave(r)
    \/ \E r \in requests : evaluateOmrSaveFails(r)
    \/ \E submissionId \in SubmissionIds : getExamResult(submissionId)

Spec == Init /\ [][Next]_vars

---------------------------------------------------------------------------
(* The evaluator's claims, stated on the raw rows. *)

Called == result # <<>>
Out == result[1]

Last(S) == CHOOSE i \in S : \A j \in S : j <= i
First(S) == CHOOSE i \in S : \A j \in S : i <= j

\* Two option letters that differ at most in case.
LetterCases == { <<"a", "A">>, <<"b", "B">>, <<"c", "C">>, <<"d", "D">> }
EqualIgnoringCase(s, t) ==
    s = t \/ <<s, t>> \in LetterCases \/ <<t, s>> \in LetterCases

\* An answer-key row that is dropped: no finite question number, or a
\* null, missing or empty correctOption.
KeyRowDropped(row) ==
    \/ Number(row.questionNumber).type # "number"
    \/ row.correctOption.type \in {"null", "undefined"}
    \/ row.correctOption = Str("")

KeptKeyIndexes ==
    { i \in 1..Len(answerKey) : ~KeyRowDropped(answerKey[i]) }

\* The distinct coerced question numbers of the rows that are not dropped.
KeyNumbers == { Number(answerKey[i].questionNumber) : i \in KeptKeyIndexes }

KeptKeyIndexesOf(q) ==
    { i \in KeptKeyIndexes : Number(answerKey[i].questionNumber) = q }

AllKeyIndexesOf(q) ==
    { i \in 1..Len(answerKey) : Number(answerKey[i].questionNumber) = q }

StudentIndexesOf(q) ==
    { i \in 1..Len(studentAnswers) :
        Number(studentAnswers[i].questionNumber) = q }

NoSelection(o) == o.type \in {"null", "undefined"} \/ o = Str("")

\* The selection of the last student row for q is absent.
NotAttempted(q) ==
    \/ StudentIndexesOf(q) = {}
    \/ NoSelection(studentAnswers[Last(StudentIndexesOf(q))].selectedOption)

SelectionOf(q) == studentAnswers[Last(StudentIndexesOf(q))].selectedOption

\* How q is classified when it is scored against the raw option o.
ClassAgainst(q, o) ==
    IF NotAttempted(q) THEN "unattempted"
    ELSE IF o.type = "string" /\ EqualIgnoringCase(SelectionOf(q).str, o.str)
    THEN "correct"
    ELSE "incorrect"

\* Scored against the last row of q that is not dropped.
ClassOf(q) ==
    ClassAgainst(q, answerKey[Last(KeptKeyIndexesOf(q))].correctOption)

\* Scored against the last row of q, dropped or not.
ClassByLastRow(q) ==
    ClassAgainst(q, answerKey[Last(AllKeyIndexesOf(q))].correctOption)

Classified(c) == { q \in KeyNumbers : ClassOf(q) = c }

\* The band of a question number, in the claim's words.
BandOf(q) ==
    IF q.num \in (1 * Unit)..(50 * Unit) THEN "Physics"
    ELSE IF q.num \in (51 * Unit)..(100 * Unit) THEN "Chemistry"
    ELSE "Biology"

BandMark(s) ==
    4 * Cardinality({ q \in Classified("correct") : BandOf(q) = s })
    - Cardinality({ q \in Classified("incorrect") : BandOf(q) = s })

WrongNumbers ==
    { Out.wrongQuestions[i].questionNumber : i \in 1..Len(Out.wrongQuestions) }

\* C1: correctCount + incorrectCount + unattemptedCount is the number of
\* distinct coerced question numbers among the answer-key rows that are not
\* dropped, and the student rows whose question number is not in the key
\* change nothing of the result.
C1_CountsCoverKey ==
    Called =>
      /\ Out.correctCount + Out.incorrectCount + Out.unattemptedCount
           = Cardinality(KeyNumbers)
      /\ Out = evaluateNeetOMR(answerKey,
                 SelectSeq(studentAnswers,
                   LAMBDA row : Number(row.questionNumber) \in KeyNumbers))

C1_Witness ==
    /\ Called
    /\ \E i \in 1..Len(answerKey) : KeyRowDropped(answerKey[i])
    /\ \E q \in KeyNumbers : Cardinality(KeptKeyIndexesOf(q)) > 1
    /\ \E i \in 1..Len(studentAnswers) :
         /\ Number(studentAnswers[i].questionNumber) \notin KeyNumbers
         /\ ~NoSelection(studentAnswers[i].selectedOption)
    /\ Out.correctCount + Out.incorrectCount + Out.unattemptedCount = 1

\* C2: totalMarks is the sum of the three subject marks, also for question
\* numbers below 1, above 100 or between two integers.
C2_TotalIsSumOfSubjects ==
    Called =>
      Out.totalMarks
        = Out.physicsMarks + Out.chemistryMarks + Out.biologyMarks

C2_Witness ==
    /\ Called
    /\ \E i, j \in 1..Len(answerKey) :
         /\ answerKey[i].questionNumber.num < 1 * Unit
         /\ answerKey[j].questionNumber.num > 100 * Unit
    /\ Out.correctCount = 1
    /\ Out.incorrectCount = 1
    /\ Out.totalMarks = 3

\* C3: every question number of the answer-key mapping is classified as
\* exactly one of unattempted (no student entry, or a null or empty
\* selection), correct (the selection equals the key's option up to case)
\* and incorrect (otherwise), and totalMarks = 4 * correctCount -
\* incorrectCount.
C3_Classification ==
    Called =>
      /\ Out.unattemptedCount = Cardinality(Classified("unattempted"))
      /\ Out.correctCount = Cardinality(Classified("correct"))
      /\ Out.incorrectCount = Cardinality(Classified("incorrect"))
      /\ Out.totalMarks = 4 * Out.correctCount - Out.incorrectCount

C3_Witness ==
    /\ Called
    /\ \E i \in KeptKeyIndexes, j \in 1..Len(studentAnswers) :
         /\ answerKey[i].correctOption = Str("a")
         /\ studentAnswers[j].selectedOption = Str("A")
         /\ ClassOf(Number(answerKey[i].questionNumber)) = "correct"
    /\ Out.correctCount = 1
    /\ Out.incorrectCount = 1

\* C4: each subject mark is 4 * (correct questions of the band) -
\* (incorrect questions of the band); the band is Physics on [1,50],
\* Chemistry on [51,100] and Biology for every other finite number.
C4_SubjectMarksByBand ==
    Called =>
      /\ Out.physicsMarks = BandMark("Physics")
      /\ Out.chemistryMarks = BandMark("Chemistry")
      /\ Out.biologyMarks = BandMark("Biology")
      /\ \A i \in 1..Len(Out.wrongQuestions) :
           Out.wrongQuestions[i].subject
             = BandOf(Out.wrongQuestions[i].questionNumber)

C4_Witness ==
    /\ Called
    /\ Len(answerKey) = 2
    /\ answerKey[1].questionNumber = Num(51 * Unit)
    /\ answerKey[2].questionNumber = Num(50 * Unit)
    /\ Out.physicsMarks = 4
    /\ Out.chemistryMarks = 0 - 1


\* The questions counted correct and the options recorded as correct are
\* those of scoring every question against the last answer-key row with
\* its number, dropped or not.
ScoredAgainstLastRow ==
    /\ Out.correctCount
         = Cardinality({ q \in KeyNumbers : ClassByLastRow(q) = "correct" })
    /\ \A i \in 1..Len(Out.wrongQuestions) :
         LET w == Out.wrongQuestions[i]
             row == answerKey[Last(AllKeyIndexesOf(w.questionNumber))]
         IN  /\ row.correctOption.type = "string"
             /\ EqualIgnoringCase(w.correctOption.str, row.correctOption.str)

\* The same, against the last row with its number that is not dropped.
ScoredAgainstLastKeptRow ==
    /\ Out.correctCount = Cardinality(Classified("correct"))
    /\ \A i \in 1..Len(Out.wrongQuestions) :
         LET w == Out.wrongQuestions[i]
             row == answerKey[Last(KeptKeyIndexesOf(w.questionNumber))]
         IN  EqualIgnoringCase(w.correctOption.str, row.correctOption.str)

\* C5, as claimed: a question number that occurs in several answer-key rows
\* is scored against the correctOption of the last of these rows only.
C5_AsClaimed == Called => ScoredAgainstLastRow

\* C5, amended: a question number that occurs in several answer-key rows is
\* scored against the correctOption of the last of these rows that is not
\* dropped; no earlier row's correctOption is used, and a later row with a
\* null, missing or empty correctOption overwrites nothing.
C5_LastKeptRowWins == Called => ScoredAgainstLastKeptRow

C5_Witness ==
    /\ Called
    /\ \E q \in KeyNumbers :
         \E i, j \in KeptKeyIndexesOf(q) :
            /\ i < j
            /\ j = Last(AllKeyIndexesOf(q))
            /\ ~EqualIgnoringCase(answerKey[i].correctOption.str,
                                  answerKey[j].correctOption.str)
            /\ ~NotAttempted(q)
            /\ EqualIgnoringCase(answerKey[i].correctOption.str,
                                 SelectionOf(q).str)
            /\ q \in WrongNumbers

\* One record for each question classified incorrect and no other, with the
\* question's number, band, selection and key option.
WrongQuestionsAreTheIncorrect ==
    /\ Len(Out.wrongQuestions) = Out.incorrectCount
    /\ Cardinality(WrongNumbers) = Len(Out.wrongQuestions)
    /\ WrongNumbers = Classified("incorrect")
    /\ \A i \in 1..Len(Out.wrongQuestions) :
         LET w == Out.wrongQuestions[i]
             q == w.questionNumber
         IN  /\ DOMAIN w = {"questionNumber", "subject", "selectedOption",
                            "correctOption"}
             /\ w.subject = BandOf(q)
             /\ EqualIgnoringCase(w.selectedOption.str, SelectionOf(q).str)
             /\ EqualIgnoringCase(w.correctOption.str,
                  answerKey[Last(KeptKeyIndexesOf(q))].correctOption.str)

\* C6, as claimed: wrongQuestions holds one record per incorrect question,
\* ordered by the position at which the question number was first seen
\* among the answer-key rows.
C6_AsClaimed ==
    Called =>
      /\ WrongQuestionsAreTheIncorrect
      /\ \A i, j \in 1..Len(Out.wrongQuestions) :
           i < j =>
             First(AllKeyIndexesOf(Out.wrongQuestions[i].questionNumber))
               < First(AllKeyIndexesOf(Out.wrongQuestions[j].questionNumber))

\* C6, amended: wrongQuestions holds one record per incorrect question and
\* none for a correct or unattempted one, ordered by the position at which
\* the question number was first seen among the answer-key rows that are
\* not dropped, also when the number is repeated later with another option.
C6_WrongQuestionsInKeptOrder ==
    Called =>
      /\ WrongQuestionsAreTheIncorrect
      /\ \A i, j \in 1..Len(Out.wrongQuestions) :
           i < j =>
             First(KeptKeyIndexesOf(Out.wrongQuestions[i].questionNumber))
               < First(KeptKeyIndexesOf(Out.wrongQuestions[j].questionNumber))

C6_Witness ==
    /\ Called
    /\ Len(Out.wrongQuestions) = 2
    /\ LET q1 == Out.wrongQuestions[1].questionNumber
           q2 == Out.wrongQuestions[2].questionNumber
       IN  /\ Last(KeptKeyIndexesOf(q1)) > First(KeptKeyIndexesOf(q2))
           /\ answerKey[First(KeptKeyIndexesOf(q1))].correctOption
                # answerKey[Last(KeptKeyIndexesOf(q1))].correctOption

\* C9: the student entry used for a question number is the last student row
\* with that finite coerced number, whatever its selectedOption: when that
\* row has a null, missing or empty selectedOption the question is counted
\* unattempted, even if an earlier row for the number carried a selection.
C9_LastStudentRowWins ==
    Called =>
      /\ Out.unattemptedCount
           = Cardinality({ q \in KeyNumbers : NotAttempted(q) })
      /\ \A q \in KeyNumbers : NotAttempted(q) => q \notin WrongNumbers
      /\ \A i \in 1..Len(Out.wrongQuestions) :
           LET w == Out.wrongQuestions[i]
           IN  EqualIgnoringCase(w.selectedOption.str,
                                 SelectionOf(w.questionNumber).str)

C9_Witness ==
    /\ Called
    /\ \E q \in KeyNumbers :
         \E i, j \in StudentIndexesOf(q) :
            /\ i < j
            /\ j = Last(StudentIndexesOf(q))
            /\ ~NoSelection(studentAnswers[i].selectedOption)
            /\ studentAnswers[j].selectedOption = Null
            /\ Out.unattemptedCount = 1
            /\ Out.correctCount + Out.incorrectCount = 0

---------------------------------------------------------------------------
(* The controller's claims. *)

\* The evaluation of a request body, as a stored value.
EvaluationOf(body) ==
    Obj(evaluateNeetOMR(body.answerKey.items, body.studentAnswers.items))

\* Every submission has no evaluation, or the marks and the evaluation of
\* the one request whose save was the last on it.
StoredPairs ==
    \A id \in DOMAIN submissions :
       \A saved \in {savedBy[id]}, submission \in {submissions[id]} :
          IF saved = <<>>
          THEN /\ submission.evaluation = Undefined
               /\ submission.detectedMarks = Undefined
          ELSE \E body \in Bodies :
                  /\ body = saved[1]
                  /\ IsArray(body.answerKey)
                  /\ IsArray(body.studentAnswers)
                  /\ submission.detectedMarks = body.studentAnswers
                  /\ submission.evaluation = EvaluationOf(body)

\* A step that answers an evaluateOmr request.
AnswersEvaluateOmr == res' # res /\ res'[1].handler = "evaluateOmr"

\* An evaluateOmr request with a body that is not two arrays is answered
\* 400 and one naming a submission that does not exist 404; neither
\* changes the store or leaves a document waiting for its save.
RejectedLeavesStore ==
    AnswersEvaluateOmr =>
      LET answer == res'[1]
          body == answer.request.body
          id == answer.request.submissionId
      IN  /\ (body.answerKey.type # "array"
                \/ body.studentAnswers.type # "array") =>
                /\ answer.status = 400
                /\ submissions' = submissions
                /\ requests' = requests
          /\ (id # 0 /\ id \notin DOMAIN submissions) =>
                /\ answer.status \in {400, 404}
                /\ submissions' = submissions
                /\ requests' = requests
          /\ (id # 0 /\ id \notin DOMAIN submissions
                /\ body.answerKey.type = "array"
                /\ body.studentAnswers.type = "array") =>
                answer.status = 404

\* C7: after any interleaving of evaluateOmr requests, every submission has
\* no evaluation, or the pair (detectedMarks, evaluation) of one single
\* request for it whose answerKey and studentAnswers are arrays; a request
\* whose body is not two arrays gets a client error, and such a request,
\* like one naming a missing submission, leaves the store unchanged.
C7_StoredPairOfOneRequest ==
    []StoredPairs /\ [][RejectedLeavesStore]_vars

C7_Witness ==
    /\ res # <<>>
    /\ res[1].handler = "evaluateOmr"
    /\ res[1].status = 400
    /\ res[1].request.body.studentAnswers.type # "array"
    /\ \E id \in DOMAIN submissions :
         /\ res[1].request.submissionId = id
         /\ savedBy[id] # <<>>
         /\ \E r \in requests :
              /\ r.submissionId = id
              /\ r.body # savedBy[id][1]
         /\ \E other \in DOMAIN submissions : savedBy[other] = <<>>

\* C8: getExamResult, for a request that names a submissionId, answers
\* not found when no submission has the id,
\* "evaluation not available" when the submission exists and no evaluateOmr
\* request for it has been saved, and otherwise 200 with the detectedMarks
\* and the evaluation of the request saved last for it; it never changes
\* the store.
C8_ResultOfLastSave ==
    [][(res' # res /\ res'[1].handler = "getExamResult") =>
         LET answer == res'[1]
             id == answer.request.submissionId
         IN  /\ submissions' = submissions
             /\ exam' = exam
             /\ id # 0 =>
                  IF id \notin DOMAIN submissions
                  THEN /\ answer.status = 404
                       /\ answer.message = "submission not found"
                  ELSE IF savedBy[id] = <<>>
                  THEN /\ answer.status = 400
                       /\ answer.message
                            = "evaluation not available for this submission yet"
                  ELSE /\ answer.status = 200
                       /\ answer.detectedMarks = savedBy[id][1].studentAnswers
                       /\ answer.evaluation = EvaluationOf(savedBy[id][1])
      ]_vars

C8_Witness ==
    /\ res # <<>>
    /\ res[1].handler = "getExamResult"
    /\ res[1].status = 200
    /\ \E id \in DOMAIN submissions :
         /\ res[1].request.submissionId = id
         /\ res[1].evaluation = submissions[id].evaluation
         /\ res[1].evaluation = EvaluationOf(savedBy[id][1])
         /\ \E r \in requests :
              /\ r.submissionId = id
              /\ r.submission.evaluation # res[1].evaluation

\* C10, as claimed: when the store holds no exam, submitOmr answers 404
\* "exam not found", uploads no media and creates no submission.
C10_AsClaimed ==
    [][(exam = <<>> /\ res' # res /\ res'[1].handler = "submitOmr") =>
         /\ res'[1].status = 404
         /\ res'[1].message = "exam not found"
         /\ media' = media
         /\ submissions' = submissions
      ]_vars

===========================================================================
